---- MODULE Spec2Model ----
(***************************************************************************)
(* Model of the reorganization engine of ai-file-organizer                 *)
(* (src/src/folder_reorganizer.py, class FolderReorganizer): planning      *)
(* (generate_folder_hierarchy, _categorize_file, _check_rule_conditions),  *)
(* preview_changes, apply_reorganization and rollback, over a small file   *)
(* tree.                                                                   *)
(*                                                                         *)
(* A directory is the sequence of its path components, a file name the     *)
(* sequence of its dot-separated parts (<<"a","txt">> is a.txt, <<"","txt">>*)
(* is the hidden file .txt), a path a record [dir, name].  The content of  *)
(* a file is identified by the path it had in the initial state.           *)
(***************************************************************************)
EXTENDS Integers, Sequences, FiniteSets, TLC

\* ------------------------------------------------------------------ bounds
\* the largest number of files in the initial tree
MaxFiles == 2
\* the largest number of files deleted by another process during a run
MaxVanish == 1
\* the largest number of files of the tree that cannot be read
MaxUnreadable == 1

\* ---------------------------------------------------------------- universe
\* The tree is organized in place: generate_folder_hierarchy scans the
\* directory that apply_reorganization and rollback get as base_output_dir.
SourceDirectory == <<"tree">>

BaseOutputDir == <<"tree">>

\* the directories that can hold a file, in listing order
DirSeq ==
    << <<"tree">>, <<"tree", "sub">>, <<"tree", "Docs">>,
       <<"tree", "Uncategorized">> >>

\* the file names: a.txt and the hidden file .txt, which has no suffix
NameSeq == << <<"a", "txt">>, <<"", "txt">> >>

\* every path of the universe, in one fixed listing order
PathSeq ==
    [i \in 1..(Len(DirSeq) * Len(NameSeq)) |->
        [dir  |-> DirSeq[((i - 1) \div Len(NameSeq)) + 1],
         name |-> NameSeq[((i - 1) % Len(NameSeq)) + 1]]]

AllPaths == {PathSeq[i] : i \in DOMAIN PathSeq}

\* the directories in which a file may lie in the initial state
InitFileDirs == {<<"tree">>, <<"tree", "sub">>, <<"tree", "Docs">>}

\* the directories that exist in every initial state
TreeDirs == {<<"tree">>, <<"tree", "sub">>}

\* the hierarchy_rules of the configurations considered
RuleConfigs ==
    { << [extensions |-> {"txt", "md"}, category |-> "Docs"],
         [extensions |-> {"txt", "png"}, category |-> "Images"] >>,
      << [extensions |-> {"png"}, category |-> "Images"],
         [category |-> "Docs"] >>,
      << [extensions |-> {"txt"}],
         [extensions |-> {"txt"}, category |-> "Docs"] >>,
      << >> }

VARIABLES
    fs,              \* the files: existing path -> content
    dirs,            \* the existing directories
    hierarchy_rules, \* self.config['hierarchy_rules']
    scanReversed,    \* the directory listing order of the file system
    previous_state,  \* self._previous_state, an insertion-ordered dict
    plan,            \* the proposed_hierarchy last returned to the caller
    planAge,         \* "none", or since the files last changed the plan was
                     \* generated once ("fresh"), again ("repeated"), or not ("stale")
    printed,         \* what the last call printed
    raised,          \* the exception the last call ended with, or "none"
    lastOp,          \* the last operation called
    moves,           \* the moves performed by apply and not yet moved back
    vanished,        \* number of files deleted by another process
    purpose_categories, \* FileAnalyzer.purpose_categories, a list
    unreadable,      \* the files that exist but cannot be read as text
    call,            \* the last call of the analyzer: its name and arguments
    returned,        \* what that call returned
    escaped,         \* the exception that call let through, or "none"
    output_docs,     \* the result documents of output_dir: file name -> document
    written          \* the file names the last process_files wrote, in order

\* the state of the reorganizer
reorganizerVars ==
    <<fs, dirs, hierarchy_rules, scanReversed, previous_state, plan,
      planAge, printed, raised, lastOp, moves, vanished>>

\* the state of the analyzer and of process_files
analyzerVars ==
    <<purpose_categories, unreadable, call, returned, escaped, output_docs, written>>

vars == <<reorganizerVars, analyzerVars>>

\* ------------------------------------------------------------ path helpers
IsPrefix(s, t) == Len(s) <= Len(t) /\ SubSeq(t, 1, Len(s)) = s

Reverse(s) == [i \in 1..Len(s) |-> s[Len(s) + 1 - i]]

\* dir and its ancestors
Parents(dir) == {SubSeq(dir, 1, n) : n \in 1..Len(dir)}

\* pathlib's PurePath.suffix without its dot: the part after the last dot of
\* the name, unless that dot is the first or the last character
SuffixNoDot(name) ==
    IF Len(name) >= 2 /\ name[Len(name)] # "" /\ (Len(name) > 2 \/ name[1] # "")
    THEN name[Len(name)]
    ELSE ""

\* source_directory.rglob('*') filtered by is_file()
Rglob(source_directory, files, reversed) ==
    SelectSeq(IF reversed THEN Reverse(PathSeq) ELSE PathSeq,
              LAMBDA p : IsPrefix(source_directory, p.dir) /\ p \in DOMAIN files)

\* ------------------------------------------------------------ categorizer
\* _check_rule_conditions: a rule with an 'extensions' key matches the files
\* whose suffix (without its dot) is one of them; any other rule matches
check_rule_conditions(file_path, rule) ==
    IF "extensions" \in DOMAIN rule
    THEN IF SuffixNoDot(file_path.name) \notin rule.extensions THEN FALSE ELSE TRUE
    ELSE TRUE

\* rule.get('category', 'Uncategorized')
RuleCategory(rule) ==
    IF "category" \in DOMAIN rule THEN rule.category ELSE "Uncategorized"

RECURSIVE CategorizeFrom(_, _, _)
CategorizeFrom(file_path, rules, i) ==
    IF i > Len(rules) THEN "Uncategorized"
    ELSE IF check_rule_conditions(file_path, rules[i]) THEN RuleCategory(rules[i])
    ELSE CategorizeFrom(file_path, rules, i + 1)

RECURSIVE CategorizeLastFrom(_, _, _)
CategorizeLastFrom(file_path, rules, i) ==
    IF i < 1 THEN "Uncategorized"
    ELSE IF check_rule_conditions(file_path, rules[i]) THEN RuleCategory(rules[i])
    ELSE CategorizeLastFrom(file_path, rules, i - 1)

\* _categorize_file with the rules walked from the last to the first
categorize_file_last_match(file_path, rules) ==
    CategorizeLastFrom(file_path, rules, Len(rules))

\* _categorize_file: the category of the first rule that matches
categorize_file(file_path, rules) == CategorizeFrom(file_path, rules, 1)

\* ---------------------------------------------------------------- planning
\* A plan is an insertion-ordered dict: a sequence of [category, files].
PlanCategories(hierarchy) == {hierarchy[i].category : i \in DOMAIN hierarchy}

PlanFiles(hierarchy) ==
    UNION {{hierarchy[i].files[j] : j \in DOMAIN hierarchy[i].files} : i \in DOMAIN hierarchy}

\* proposed_hierarchy[category].append(file_path), the key created if absent
PlanAppend(hierarchy, category, file_path) ==
    IF category \in PlanCategories(hierarchy)
    THEN [i \in DOMAIN hierarchy |->
            IF hierarchy[i].category = category
            THEN [hierarchy[i] EXCEPT !.files = Append(@, file_path)]
            ELSE hierarchy[i]]
    ELSE Append(hierarchy, [category |-> category, files |-> <<file_path>>])

RECURSIVE GroupFrom(_, _, _, _)
GroupFrom(listing, rules, i, hierarchy) ==
    IF i > Len(listing) THEN hierarchy
    ELSE GroupFrom(listing, rules, i + 1,
            PlanAppend(hierarchy, categorize_file(listing[i], rules), listing[i]))

RECURSIVE AppendAllMatches(_, _, _, _)
AppendAllMatches(hierarchy, file_path, rules, i) ==
    IF i > Len(rules) THEN hierarchy
    ELSE AppendAllMatches(
            IF check_rule_conditions(file_path, rules[i])
            THEN PlanAppend(hierarchy, RuleCategory(rules[i]), file_path)
            ELSE hierarchy,
            file_path, rules, i + 1)

RECURSIVE GroupAllFrom(_, _, _, _)
GroupAllFrom(listing, rules, i, hierarchy) ==
    IF i > Len(listing) THEN hierarchy
    ELSE GroupAllFrom(listing, rules, i + 1,
            IF categorize_file(listing[i], rules) = "Uncategorized"
            THEN PlanAppend(hierarchy, "Uncategorized", listing[i])
            ELSE AppendAllMatches(hierarchy, listing[i], rules, 1))

\* generate_folder_hierarchy listing a file under every rule it matches
hierarchy_of_every_match(source_directory, files, rules, reversed) ==
    GroupAllFrom(Rglob(source_directory, files, reversed), rules, 1, << >>)

\* generate_folder_hierarchy: the files of the tree grouped by category
generate_folder_hierarchy(source_directory, files, rules, reversed) ==
    GroupFrom(Rglob(source_directory, files, reversed), rules, 1, << >>)

\* ----------------------------------------------------------------- preview
RECURSIVE PreviewFrom(_, _, _)
PreviewFrom(hierarchy, i, out) ==
    IF i > Len(hierarchy) THEN out
    ELSE PreviewFrom(hierarchy, i + 1,
            out \o << <<"Category:", hierarchy[i].category>> >>
                \o [j \in DOMAIN hierarchy[i].files |->
                        <<"-">> \o hierarchy[i].files[j].dir
                               \o hierarchy[i].files[j].name])

\* the lines preview_changes prints, each a sequence of strings
preview_lines(proposed_hierarchy) ==
    PreviewFrom(proposed_hierarchy, 1, << <<"Proposed Folder Reorganization:">> >>)

\* ------------------------------------------------------ file system steps
\* shutil.move(src, dst) of a regular file raises FileNotFoundError when src
\* does not exist (or the directory of dst does not)
CanMove(files, directories, src, dst) ==
    src \in DOMAIN files /\ dst.dir \in directories

\* shutil.move(src, dst) that succeeds: os.rename, which replaces a file that
\* is already at dst and does nothing when src and dst are one path
ShutilMove(files, src, dst) ==
    [q \in (DOMAIN files \ {src}) \cup {dst} |->
        IF q = dst THEN files[src] ELSE files[q]]

\* category_dir.mkdir(parents=True, exist_ok=True)
Mkdir(directories, dir) == directories \cup Parents(dir)

\* not any(dir.iterdir())
IsEmptyDir(files, directories, dir) ==
    /\ \A p \in DOMAIN files : p.dir # dir
    /\ \A d \in directories : ~(IsPrefix(dir, d) /\ d # dir)

\* base_output_dir.iterdir() filtered by is_dir()
ChildDirs(directories, base) ==
    {d \in directories : Len(d) = Len(base) + 1 /\ IsPrefix(base, d)}

\* ------------------------------------------------------------------ ledger
\* A dict is a sequence of [original, current] items in insertion order.
DictKeys(d) == {d[i].original : i \in DOMAIN d}

\* d[key] = value
DictSet(d, key, value) ==
    IF key \in DictKeys(d)
    THEN [i \in DOMAIN d |->
            IF d[i].original = key THEN [d[i] EXCEPT !.current = value] ELSE d[i]]
    ELSE Append(d, [original |-> key, current |-> value])

\* ------------------------------------------------------------------- apply
\* The state threaded through the loops of apply_reorganization and rollback:
\* [files, directories, ledger, performed, raised].
RECURSIVE ApplyFiles(_, _, _, _)
ApplyFiles(category_dir, files, j, st) ==
    IF j > Len(files) THEN st
    ELSE LET file_path   == files[j]
             recorded    == [st EXCEPT !.ledger = DictSet(@, file_path, file_path)]
             destination == [dir |-> category_dir, name |-> file_path.name]
         IN  IF ~CanMove(recorded.files, recorded.directories, file_path, destination)
             THEN [recorded EXCEPT !.raised = "FileNotFoundError"]
             ELSE ApplyFiles(category_dir, files, j + 1,
                    [recorded EXCEPT
                        !.files = ShutilMove(@, file_path, destination),
                        !.performed = @ \cup {[original |-> file_path,
                                               destination |-> destination]}])

RECURSIVE ApplyCategories(_, _, _, _)
ApplyCategories(proposed_hierarchy, base_output_dir, i, st) ==
    IF i > Len(proposed_hierarchy) \/ st.raised # "none" THEN st
    ELSE LET category_dir == Append(base_output_dir, proposed_hierarchy[i].category)
             made == [st EXCEPT !.directories = Mkdir(@, category_dir)]
         IN  ApplyCategories(proposed_hierarchy, base_output_dir, i + 1,
                ApplyFiles(category_dir, proposed_hierarchy[i].files, 1, made))

\* apply_reorganization(proposed_hierarchy, base_output_dir), from the ledger
\* emptied at its start
apply_reorganization(proposed_hierarchy, base_output_dir, files, directories, performed) ==
    ApplyCategories(proposed_hierarchy, base_output_dir, 1,
        [files |-> files, directories |-> directories, ledger |-> << >>,
         performed |-> performed, raised |-> "none"])

\* ---------------------------------------------------------------- rollback
RECURSIVE RollbackMoves(_, _, _)
RollbackMoves(ledger, i, st) ==
    IF i > Len(ledger) THEN st
    ELSE LET original_path == ledger[i].original
             current_path  == ledger[i].current
         IN  IF ~CanMove(st.files, st.directories, current_path, original_path)
             THEN [st EXCEPT !.raised = "FileNotFoundError"]
             ELSE RollbackMoves(ledger, i + 1,
                    [st EXCEPT
                        !.files = ShutilMove(@, current_path, original_path),
                        !.performed = {m \in @ : ~(m.original = original_path
                                                   /\ m.destination = current_path)}])

\* the directories left once rollback has removed the empty ones
RemoveEmptyDirs(files, directories, base_output_dir) ==
    directories \ {d \in ChildDirs(directories, base_output_dir) :
                      IsEmptyDir(files, directories, d)}

\* rollback(base_output_dir) with a ledger that is not empty
rollback(ledger, base_output_dir, files, directories, performed) ==
    LET moved == RollbackMoves(ledger, 1,
                    [files |-> files, directories |-> directories, ledger |-> ledger,
                     performed |-> performed, raised |-> "none"])
    IN  IF moved.raised # "none" THEN moved
        ELSE IF base_output_dir \notin moved.directories
        THEN [moved EXCEPT !.ledger = << >>, !.raised = "FileNotFoundError"]
        ELSE [moved EXCEPT
                !.ledger = << >>,
                !.directories = RemoveEmptyDirs(moved.files, @, base_output_dir)]

\* what rollback prints when the ledger is empty
NothingToRollback == << <<"No previous state to rollback.">> >>

\* ---------------------------------------------------------------- analyzer
\* Scores and thresholds are counted in tenths, combined scores in hundredths.
\* the weights 0.7 and 0.3 of the two scores
ZeroShotWeight == 7

SemanticWeight == 3

\* confidence_threshold = 0.5
DefaultThreshold == 5

\* content[:500]
PreviewLength == 500

\* the purpose_categories lists considered
PurposeConfigs == { <<"Work", "Finance">> }

\* the scores the zero-shot classifier and the similarity can give a category
ZeroShotScores == {5, 10}

SemanticScores == {0, 5}

\* the confidence_threshold arguments considered
Thresholds == {DefaultThreshold, 7}

CategorySet(categories) == {categories[i] : i \in DOMAIN categories}

\* the classification service when it fails
ServiceDown(categories) ==
    [up |-> FALSE,
     zero_shot |-> [c \in CategorySet(categories) |-> 0],
     semantic  |-> [c \in CategorySet(categories) |-> 0]]

\* what the classifier and the similarity model may do in one call: fail, or
\* score every candidate label
Services(categories) ==
    {ServiceDown(categories)} \cup
    {[up |-> TRUE, zero_shot |-> z, semantic |-> m] :
        z \in [CategorySet(categories) -> ZeroShotScores],
        m \in [CategorySet(categories) -> SemanticScores]}

\* the services drawn where a whole file or tree is analyzed: the failing
\* one, and one that scores every category at the default threshold
SampleServices(categories) ==
    {ServiceDown(categories),
     [up |-> TRUE,
      zero_shot |-> [c \in CategorySet(categories) |-> 5],
      semantic  |-> [c \in CategorySet(categories) |-> 5]]}

\* the directories of the tree that hold the files to analyze
AnalyzerDirs == { <<"tree">>, <<"tree", "sub">> }

\* the paths analyze_file is called with
AnalyzerPaths == {p \in AllPaths : p.dir \in AnalyzerDirs}

\* d[key] = value on a dict kept as a function
DictPut(d, key, value) ==
    [x \in DOMAIN d \cup {key} |-> IF x = key THEN value ELSE d[x]]

\* d.get(key, 0)
DictGet(d, key) == IF key \in DOMAIN d THEN d[key] ELSE 0

\* (0.7 * zero_shot_score) + (0.3 * semantic_score), in hundredths
FinalScore(service, category) ==
    ZeroShotWeight * DictGet(service.zero_shot, category)
        + SemanticWeight * DictGet(service.semantic, category)

RECURSIVE FinalScoresFrom(_, _, _, _, _)
FinalScoresFrom(categories, service, threshold, i, final_scores) ==
    IF i > Len(categories) THEN final_scores
    ELSE FinalScoresFrom(categories, service, threshold, i + 1,
            IF FinalScore(service, categories[i]) >= 10 * threshold
            THEN DictPut(final_scores, categories[i], FinalScore(service, categories[i]))
            ELSE final_scores)

RECURSIVE FinalScoresAboveFrom(_, _, _, _, _)
FinalScoresAboveFrom(categories, service, threshold, i, final_scores) ==
    IF i > Len(categories) THEN final_scores
    ELSE FinalScoresAboveFrom(categories, service, threshold, i + 1,
            IF FinalScore(service, categories[i]) > 10 * threshold
            THEN DictPut(final_scores, categories[i], FinalScore(service, categories[i]))
            ELSE final_scores)

\* classify_file_purpose that keeps only the scores above the threshold
classify_above_threshold(categories, service, threshold) ==
    IF ~service.up THEN [raised |-> "none", value |-> << >>]
    ELSE [raised |-> "none",
          value |-> FinalScoresAboveFrom(categories, service, threshold, 1, << >>)]

\* classify_file_purpose without its except clause
classify_propagating(categories, service, threshold) ==
    IF ~service.up THEN [raised |-> "ClassificationError", value |-> << >>]
    ELSE [raised |-> "none",
          value |-> FinalScoresFrom(categories, service, threshold, 1, << >>)]

\* classify_file_purpose: the exception of a failing service is caught and
\* the empty dict returned; the result is [raised, value]
classify_file_purpose(categories, service, threshold) ==
    IF ~service.up THEN [raised |-> "none", value |-> << >>]
    ELSE [raised |-> "none",
          value |-> FinalScoresFrom(categories, service, threshold, 1, << >>)]

\* file_path.suffix: the last extension with its dot, or ""
Suffix(name) == IF SuffixNoDot(name) = "" THEN "" ELSE "." \o SuffixNoDot(name)

\* extract_metadata: the attributes of the file, or {} when stat() fails
extract_metadata(file_path, files) ==
    IF file_path \in DOMAIN files
    THEN [name |-> file_path.name, extension |-> Suffix(file_path.name)]
    ELSE << >>

\* f.read(), or "" when the file cannot be opened or decoded
ReadContent(file_path, files, unread) ==
    IF file_path \in DOMAIN files /\ file_path \notin unread
    THEN <<files[file_path]>>
    ELSE << >>

\* content[:500]
ContentPreview(content) ==
    SubSeq(content, 1, IF Len(content) < PreviewLength THEN Len(content)
                       ELSE PreviewLength)

\* analyze_file: [raised, value]; an exception of classify_file_purpose
\* would pass through, every other one is caught
analyze_file(file_path, files, unread, categories, service) ==
    LET metadata == extract_metadata(file_path, files)
        content  == ReadContent(file_path, files, unread)
        purposes == classify_file_purpose(categories, service, DefaultThreshold)
    IN  IF purposes.raised # "none"
        THEN [raised |-> purposes.raised, value |-> << >>]
        ELSE [raised |-> "none",
              value |-> [path |-> file_path,
                         metadata |-> metadata,
                         purposes |-> purposes.value,
                         content_preview |-> ContentPreview(content),
                         classification_method |-> "advanced_multi_model"]]

\* file_path.stem: the name without its suffix
Stem(name) == IF SuffixNoDot(name) = "" THEN name ELSE SubSeq(name, 1, Len(name) - 1)

RECURSIVE JoinDots(_)
JoinDots(parts) ==
    IF Len(parts) = 0 THEN ""
    ELSE IF Len(parts) = 1 THEN parts[1]
    ELSE parts[1] \o "." \o JoinDots(Tail(parts))

\* the name f"{file_path.stem}_analysis.json" of the result document
ResultFilename(file_path) == JoinDots(Stem(file_path.name)) \o "_analysis.json"

\* The state threaded through the loop of process_files:
\* [results, docs, written].
RECURSIVE ProcessFrom(_, _, _, _, _, _, _, _)
ProcessFrom(listing, output, files, unread, categories, service, i, st) ==
    IF i > Len(listing) THEN st
    ELSE LET file_analysis == analyze_file(listing[i], files, unread, categories,
                                           service)
             appended == [st EXCEPT !.results = Append(@, file_analysis.value)]
         IN  ProcessFrom(listing, output, files, unread, categories, service, i + 1,
                IF file_analysis.raised # "none" THEN st
                ELSE IF ~output THEN appended
                ELSE [appended EXCEPT
                        !.docs = DictPut(@, ResultFilename(listing[i]),
                                         file_analysis.value),
                        !.written = Append(@, ResultFilename(listing[i]))])

\* process_files(directory, output_dir), output telling whether an
\* output_dir is given, docs the documents already in it
process_files(directory, output, files, unread, categories, service, reversed, docs) ==
    ProcessFrom(Rglob(directory, files, reversed), output, files, unread,
                categories, service, 1,
                [results |-> << >>, docs |-> docs, written |-> << >>])

\* the path and the call that stand for none
NoPath == [dir |-> << >>, name |-> << >>]

NoCall ==
    [op |-> "none", path |-> NoPath, service |-> ServiceDown(<< >>),
     threshold |-> DefaultThreshold, output |-> FALSE]

\* ------------------------------------------------------------------ actions
Init ==
    /\ purpose_categories = << >>
    /\ unreadable = {}
    /\ call = NoCall
    /\ returned = << >>
    /\ escaped = "none"
    /\ output_docs = << >>
    /\ written = << >>
    /\ \E present \in SUBSET {p \in AllPaths : p.dir \in InitFileDirs} :
         /\ Cardinality(present) <= MaxFiles
         /\ fs = [p \in present |-> p]
         /\ dirs = TreeDirs \cup UNION {Parents(p.dir) : p \in present}
    /\ hierarchy_rules \in RuleConfigs
    /\ scanReversed \in BOOLEAN
    /\ previous_state = << >>
    /\ plan = << >>
    /\ planAge = "none"
    /\ printed = << >>
    /\ raised = "none"
    /\ lastOp = "init"
    /\ moves = {}
    /\ vanished = 0

\* the age of the plan once a call has changed the files from before to after
Aged(age, before, after) ==
    IF age = "none" \/ before = after THEN age ELSE "stale"

\* generate_folder_hierarchy that goes on filling the plan of the call before
GenerateAccumulating ==
    /\ plan' = GroupFrom(Rglob(SourceDirectory, fs, scanReversed), hierarchy_rules,
                         1, plan)
    /\ planAge' = IF planAge \in {"fresh", "repeated"} THEN "repeated" ELSE "fresh"
    /\ printed' = << >>
    /\ raised' = "none"
    /\ lastOp' = "generate"
    /\ UNCHANGED <<fs, dirs, hierarchy_rules, scanReversed, previous_state, moves,
                   vanished>>
    /\ UNCHANGED analyzerVars

\* generate_folder_hierarchy that creates the category directories it plans
GenerateMakingDirs ==
    /\ plan' = generate_folder_hierarchy(SourceDirectory, fs, hierarchy_rules,
                                         scanReversed)
    /\ dirs' = dirs \cup UNION {Parents(Append(BaseOutputDir, c)) :
                                    c \in PlanCategories(plan')}
    /\ planAge' = IF planAge \in {"fresh", "repeated"} THEN "repeated" ELSE "fresh"
    /\ printed' = << >>
    /\ raised' = "none"
    /\ lastOp' = "generate"
    /\ UNCHANGED <<fs, hierarchy_rules, scanReversed, previous_state, moves,
                   vanished>>
    /\ UNCHANGED analyzerVars

\* a caller runs generate_folder_hierarchy(source_directory) and keeps the plan
Generate ==
    /\ plan' = generate_folder_hierarchy(SourceDirectory, fs, hierarchy_rules,
                                         scanReversed)
    /\ planAge' = IF planAge \in {"fresh", "repeated"} THEN "repeated" ELSE "fresh"
    /\ printed' = << >>
    /\ raised' = "none"
    /\ lastOp' = "generate"
    /\ UNCHANGED <<fs, dirs, hierarchy_rules, scanReversed, previous_state, moves,
                   vanished>>
    /\ UNCHANGED analyzerVars

\* a caller runs preview_changes on its plan
PreviewChanges ==
    /\ printed' = preview_lines(plan)
    /\ raised' = "none"
    /\ lastOp' = "preview"
    /\ UNCHANGED <<fs, dirs, hierarchy_rules, scanReversed, previous_state, plan,
                   planAge, moves, vanished>>
    /\ UNCHANGED analyzerVars

\* apply_reorganization that goes on from the ledger of the earlier calls
ApplyKeepingLedger ==
    /\ LET done == ApplyCategories(plan, BaseOutputDir, 1,
                       [files |-> fs, directories |-> dirs,
                        ledger |-> previous_state, performed |-> moves,
                        raised |-> "none"])
       IN  /\ fs' = done.files
           /\ dirs' = done.directories
           /\ previous_state' = done.ledger
           /\ moves' = done.performed
           /\ raised' = done.raised
    /\ printed' = << >>
    /\ lastOp' = "apply"
    /\ planAge' = Aged(planAge, fs, fs')
    /\ UNCHANGED <<hierarchy_rules, scanReversed, plan, vanished>>
    /\ UNCHANGED analyzerVars

\* a caller runs apply_reorganization(plan, base_output_dir)
Apply ==
    /\ LET done == apply_reorganization(plan, BaseOutputDir, fs, dirs, moves)
       IN  /\ fs' = done.files
           /\ dirs' = done.directories
           /\ previous_state' = done.ledger
           /\ moves' = done.performed
           /\ raised' = done.raised
    /\ printed' = << >>
    /\ lastOp' = "apply"
    /\ planAge' = Aged(planAge, fs, fs')
    /\ UNCHANGED <<hierarchy_rules, scanReversed, plan, vanished>>
    /\ UNCHANGED analyzerVars

\* rollback without its check for an empty ledger
RollbackWithoutGuard ==
    /\ LET done == rollback(previous_state, BaseOutputDir, fs, dirs, moves)
       IN  /\ fs' = done.files
           /\ dirs' = done.directories
           /\ previous_state' = done.ledger
           /\ moves' = done.performed
           /\ raised' = done.raised
           /\ printed' = << >>
    /\ lastOp' = "rollback"
    /\ planAge' = Aged(planAge, fs, fs')
    /\ UNCHANGED <<hierarchy_rules, scanReversed, plan, vanished>>
    /\ UNCHANGED analyzerVars

\* a caller runs rollback(base_output_dir)
Rollback ==
    /\ IF previous_state = << >>
       THEN /\ printed' = NothingToRollback
            /\ raised' = "none"
            /\ UNCHANGED <<fs, dirs, previous_state, moves>>
       ELSE LET done == rollback(previous_state, BaseOutputDir, fs, dirs, moves)
            IN  /\ fs' = done.files
                /\ dirs' = done.directories
                /\ previous_state' = done.ledger
                /\ moves' = done.performed
                /\ raised' = done.raised
                /\ printed' = << >>
    /\ lastOp' = "rollback"
    /\ planAge' = Aged(planAge, fs, fs')
    /\ UNCHANGED <<hierarchy_rules, scanReversed, plan, vanished>>
    /\ UNCHANGED analyzerVars

\* another process deletes a planned file between planning and the next call
Vanish(p) ==
    /\ vanished < MaxVanish
    /\ planAge \in {"fresh", "repeated"}
    /\ p \in PlanFiles(plan)
    /\ p \in DOMAIN fs
    /\ fs' = [q \in DOMAIN fs \ {p} |-> fs[q]]
    /\ vanished' = vanished + 1
    /\ lastOp' = "external"
    /\ printed' = << >>
    /\ raised' = "none"
    /\ planAge' = "stale"
    /\ UNCHANGED <<dirs, hierarchy_rules, scanReversed, previous_state, plan,
                   moves>>
    /\ UNCHANGED analyzerVars

\* a FileAnalyzer over a tree, before any call
AnalyzerInit ==
    /\ \E present \in SUBSET AnalyzerPaths :
         /\ Cardinality(present) <= MaxFiles
         /\ fs = [p \in present |-> p]
         /\ dirs = TreeDirs \cup UNION {Parents(p.dir) : p \in present}
         /\ \E unread \in SUBSET present :
              Cardinality(unread) <= MaxUnreadable /\ unreadable = unread
    /\ hierarchy_rules = << >>
    /\ scanReversed \in BOOLEAN
    /\ previous_state = << >>
    /\ plan = << >>
    /\ planAge = "none"
    /\ printed = << >>
    /\ raised = "none"
    /\ lastOp = "init"
    /\ moves = {}
    /\ vanished = 0
    /\ purpose_categories \in PurposeConfigs
    /\ call = NoCall
    /\ returned = << >>
    /\ escaped = "none"
    /\ output_docs = << >>
    /\ written = << >>

\* a caller runs classify_file_purpose(file_content, confidence_threshold)
ClassifyFilePurpose(service, threshold) ==
    /\ LET done == classify_file_purpose(purpose_categories, service, threshold)
       IN  returned' = done.value /\ escaped' = done.raised
    /\ call' = [op |-> "classify_file_purpose", path |-> NoPath,
                service |-> service, threshold |-> threshold, output |-> FALSE]
    /\ UNCHANGED <<purpose_categories, unreadable, output_docs, written>>
    /\ UNCHANGED reorganizerVars

\* a caller runs analyze_file(file_path)
AnalyzeFile(file_path, service) ==
    /\ LET done == analyze_file(file_path, fs, unreadable, purpose_categories,
                                service)
       IN  returned' = done.value /\ escaped' = done.raised
    /\ call' = [op |-> "analyze_file", path |-> file_path, service |-> service,
                threshold |-> DefaultThreshold, output |-> FALSE]
    /\ UNCHANGED <<purpose_categories, unreadable, output_docs, written>>
    /\ UNCHANGED reorganizerVars

\* a caller runs process_files(directory, output_dir)
ProcessFiles(output, service) ==
    /\ LET done == process_files(SourceDirectory, output, fs, unreadable,
                                 purpose_categories, service, scanReversed,
                                 output_docs)
       IN  /\ returned' = done.results
           /\ output_docs' = done.docs
           /\ written' = done.written
    /\ escaped' = "none"
    /\ call' = [op |-> "process_files", path |-> NoPath, service |-> service,
                threshold |-> DefaultThreshold, output |-> output]
    /\ UNCHANGED <<purpose_categories, unreadable>>
    /\ UNCHANGED reorganizerVars

AnalyzerNext ==
    \/ \E service \in Services(purpose_categories), threshold \in Thresholds :
            ClassifyFilePurpose(service, threshold)
    \/ \E file_path \in AnalyzerPaths, service \in SampleServices(purpose_categories) :
            AnalyzeFile(file_path, service)
    \/ \E output \in BOOLEAN, service \in SampleServices(purpose_categories) :
            ProcessFiles(output, service)

AnalyzerSpec == AnalyzerInit /\ [][AnalyzerNext]_vars

Next ==
    \/ Generate
    \/ PreviewChanges
    \/ Apply
    \/ Rollback
    \/ \E p \in AllPaths : Vanish(p)

Spec == Init /\ [][Next]_vars

\* ----------------------------------------------------- notions of the claims
Contents(files) == {files[p] : p \in DOMAIN files}

\* the files of the scanned tree
TreeFiles(files) == {p \in DOMAIN files : IsPrefix(SourceDirectory, p.dir)}

\* where apply_reorganization moves file p of the plan
PlanDestination(hierarchy, p) ==
    LET i == CHOOSE k \in DOMAIN hierarchy :
                \E j \in DOMAIN hierarchy[k].files : hierarchy[k].files[j] = p
    IN  [dir |-> Append(BaseOutputDir, hierarchy[i].category), name |-> p.name]

\* the places at which the plan lists p
Listings(hierarchy, p) ==
    {ij \in (DOMAIN hierarchy) \X (1..Len(PathSeq)) :
        /\ ij[2] \in DOMAIN hierarchy[ij[1]].files
        /\ hierarchy[ij[1]].files[ij[2]] = p}

\* the rules a file satisfies
MatchingRules(file_path, rules) ==
    {i \in DOMAIN rules : check_rule_conditions(file_path, rules[i])}

\* the category of the earliest matching rule, written without a loop
FirstMatchCategory(file_path, rules) ==
    LET matching == MatchingRules(file_path, rules)
    IN  IF matching = {} THEN "Uncategorized"
        ELSE RuleCategory(rules[CHOOSE i \in matching : \A k \in matching : i <= k])

\* ------------------------------------------------------------------ claims

\* C1: rollback inverts apply.  When rollback follows an apply that completed,
\* every file of the plan is again at its original path and no file of the
\* plan that apply moved is left at its destination under base_output_dir
\* (so a category directory that apply created holds nothing any more).
C1_RollbackInvertsApply ==
    [][(lastOp = "apply" /\ raised = "none" /\ Rollback) =>
        \A p \in PlanFiles(plan) :
            /\ p \in DOMAIN fs'
            /\ (PlanDestination(plan, p) # p
                /\ PlanDestination(plan, p) \notin PlanFiles(plan))
               => PlanDestination(plan, p) \notin DOMAIN fs']_vars

\* C2: apply_reorganization never overwrites a file: every content that
\* exists before an apply still exists after it.
C2_ApplyNeverOverwrites ==
    [][Apply => Contents(fs) \subseteq Contents(fs')]_vars

\* C3: in every reachable state the ledger holds a record for a file if and
\* only if apply has moved that file and rollback has not moved it back.
C3_LedgerIffMoved ==
    DictKeys(previous_state) = {m.original : m \in moves}

\* C4: a move failure during apply is contained to the failing file: when a
\* file of the plan is missing, the files of the plan that exist are moved all
\* the same and the ledger holds records for the moved files only.
C4_MoveFailureContained ==
    [][(Apply /\ \E p \in PlanFiles(plan) : p \notin DOMAIN fs) =>
        /\ \A p \in PlanFiles(plan) \cap DOMAIN fs :
              PlanDestination(plan, p) # p => p \notin DOMAIN fs'
        /\ DictKeys(previous_state') \subseteq PlanFiles(plan) \cap DOMAIN fs]_vars

\* C5: rollback with an empty ledger raises nothing, prints the "nothing to
\* rollback" message and changes neither the files, the directories nor the
\* ledger.
C5_RollbackEmptyLedgerNoOp ==
    [][(Rollback /\ previous_state = << >>) =>
        /\ raised' = "none"
        /\ printed' = NothingToRollback
        /\ UNCHANGED <<fs, dirs, previous_state>>]_vars

\* a rollback on an empty ledger has just run while a directory under
\* base_output_dir is empty
C5_Witness ==
    /\ lastOp = "rollback"
    /\ printed = NothingToRollback
    /\ previous_state = << >>
    /\ \E d \in ChildDirs(dirs, BaseOutputDir) : IsEmptyDir(fs, dirs, d)

\* C6: rollback is idempotent: once a rollback has run the ledger is empty, so
\* that a second rollback only reports that there is nothing to roll back.
C6_LedgerEmptyAfterRollback ==
    lastOp = "rollback" => previous_state = << >>

\* C7: _categorize_file returns the category of the first rule, in
\* configuration order, that the file satisfies, and "Uncategorized" when
\* no rule matches; every plan lists each file under that category.
C7_FirstMatchWins ==
    /\ \A p \in AllPaths :
          categorize_file(p, hierarchy_rules) = FirstMatchCategory(p, hierarchy_rules)
    /\ \A i \in DOMAIN plan : \A j \in DOMAIN plan[i].files :
          plan[i].category = FirstMatchCategory(plan[i].files[j], hierarchy_rules)

\* a plan lists a file that satisfies two rules of different categories, and
\* a file that satisfies none
C7_Witness ==
    /\ \E p \in PlanFiles(plan) :
          \E i, k \in MatchingRules(p, hierarchy_rules) :
              i < k /\ RuleCategory(hierarchy_rules[i]) # RuleCategory(hierarchy_rules[k])
    /\ \E p \in PlanFiles(plan) :
          hierarchy_rules # << >> /\ MatchingRules(p, hierarchy_rules) = {}

\* C8: a plan returned by generate_folder_hierarchy lists every file of the
\* scanned tree exactly once: under one category and once in its list, and
\* no category twice.
C8_OneCategoryPerFile ==
    planAge \in {"fresh", "repeated"} =>
        /\ \A p \in TreeFiles(fs) : Cardinality(Listings(plan, p)) = 1
        /\ \A i, k \in DOMAIN plan : plan[i].category = plan[k].category => i = k

\* a plan of the unchanged tree with two files, one of which satisfies two rules
C8_Witness ==
    /\ planAge = "fresh"
    /\ Cardinality(PlanFiles(plan)) >= 2
    /\ \E p \in PlanFiles(plan) : Cardinality(MatchingRules(p, hierarchy_rules)) >= 2

C10_PlanningAndPreviewReadOnly ==
    [][/\ (Generate \/ PreviewChanges) => UNCHANGED <<fs, dirs, previous_state>>
       /\ (<<fs, dirs, previous_state>>' # <<fs, dirs, previous_state>>)
            => (Apply \/ Rollback \/ \E p \in AllPaths : Vanish(p))]_vars

\* a plan has been generated, or previewed, after an apply has moved files
C10_Witness ==
    /\ lastOp \in {"generate", "preview"}
    /\ previous_state # << >>
    /\ moves # {}
    /\ plan # << >>

\* the category directories: those of the categories of the plan and of the
\* rules, and of the default category
CategoryDirs(hierarchy, rules, base_output_dir) ==
    {base_output_dir \o <<c>> :
        c \in PlanCategories(hierarchy)
                \cup {RuleCategory(rules[i]) : i \in DOMAIN rules}
                \cup {"Uncategorized"}}

\* C15: every apply_reorganization starts by emptying the ledger: after the
\* call the ledger holds records only for files of the plan that was passed,
\* none of an earlier call.
C15_ApplyStartsFromEmptyLedger ==
    [][Apply => DictKeys(previous_state') \subseteq PlanFiles(plan)]_vars

\* an apply has run while the file of an earlier move, not yet moved back,
\* is not in the ledger any more
C15_Witness ==
    /\ lastOp = "apply"
    /\ previous_state # << >>
    /\ \E m \in moves : m.original \notin DictKeys(previous_state)

\* C16: rollback removes only category directories left empty: a directory
\* directly under base_output_dir that is not a category directory is still
\* there after rollback, and no directory that is not empty is removed.
C16_RollbackRemovesOnlyCategoryDirs ==
    [][Rollback =>
        \A d \in dirs \ dirs' :
            /\ d \in CategoryDirs(plan, hierarchy_rules, BaseOutputDir)
            /\ IsEmptyDir(fs', dirs, d)]_vars

\* 0.7 x primary score + 0.3 x secondary score of a category, in hundredths
CombinedScore(service, category) ==
    7 * service.zero_shot[category] + 3 * service.semantic[category]

\* C11: classify_file_purpose returns exactly the purpose categories whose
\* combined score (0.7 x primary + 0.3 x secondary) is at least the
\* threshold, each with that score: a category at the threshold is included,
\* one below it is not.
C11_ExactlyCategoriesAtOrAboveThreshold ==
    (call.op = "classify_file_purpose" /\ call.service.up) =>
        /\ DOMAIN returned =
              {c \in CategorySet(purpose_categories) :
                  CombinedScore(call.service, c) >= 10 * call.threshold}
        /\ \A c \in DOMAIN returned : returned[c] = CombinedScore(call.service, c)

\* a classification with one category exactly at the threshold, returned,
\* and one below it, left out
C11_Witness ==
    /\ call.op = "classify_file_purpose"
    /\ call.service.up
    /\ \E c, d \in CategorySet(purpose_categories) :
         /\ CombinedScore(call.service, c) = 10 * call.threshold
         /\ c \in DOMAIN returned
         /\ CombinedScore(call.service, d) < 10 * call.threshold
         /\ d \notin DOMAIN returned

C13_AnalyzeFileRaisesOnBadFile ==
    (call.op = "analyze_file"
        /\ (call.path \notin DOMAIN fs \/ call.path \in unreadable))
        => escaped # "none"

\* C14: with an output_dir, process_files writes one result document per
\* analyzed file: the documents of output_dir are as many as the results
\* returned, and no document is written over by that of another file.
C14_OneDocumentPerResult ==
    (call.op = "process_files" /\ call.output) =>
        /\ Cardinality(DOMAIN output_docs) = Len(returned)
        /\ \A i, k \in DOMAIN written : written[i] = written[k] => i = k

====
